---- MODULE Spec2Model ----
(***************************************************************************)
(* Sensei4Stocks: the Streamlit page function main() of app.py, the message *)
(* filters of run_stock_analysis and the audio rendering step of            *)
(* voice_generator.py, as a state machine.                                  *)
(*                                                                          *)
(* One render pass of main() is a chain of steps ordered by pc:             *)
(*   idle -> run -> analysis -> autostart -> playback -> idle               *)
(* st.session_state is the set of session variables below; the wall clock,  *)
(* the environment variables and the working directory are the environment. *)
(* Times are whole seconds.  The only use main() makes of the timestamp     *)
(* st.session_state["audio_start_<agent>"] is time.time() minus it, so the  *)
(* model keeps that difference, audio_start_age[agent], which the clock     *)
(* step Tick raises; differences above MaxElapsed, which is above every     *)
(* clip duration of the model, are kept as MaxElapsed.  A duration of d     *)
(* seconds is kept as d * 48000 (the byte count of d seconds of audio), so  *)
(* that file_size / 48000 is exact for every file size.                     *)
(***************************************************************************)
EXTENDS Integers, Sequences, FiniteSets, TLC

VARIABLES
    \* ---- st.session_state
    analysis_complete, voice_playing, voice_playback_complete,
    agent_audio_files, current_playing_agent, playback_index, agents_to_play,
    audio_durations, audio_start_age, agent_messages, agent_outputs,
    \* ---- environment
    disk, env_keys, clip_bytes,
    \* ---- position and locals of the render pass in progress
    pc, run_analysis, rendered_active, exposed_clip, shown, failed,
    called_render, clip_io, scheduled,
    \* ---- locals of run_stock_analysis while it streams
    fpc, current_chunk, agent_all_content, agent_outputs_local, chunk_count,
    \* ---- one call of generate_individual_agent_audio taken alone: the fault
    \* injected into it and what it returned
    render_fault, render_result,
    \* ---- voice input: session state, the recorder's value, the text area's
    \* value, and history of the pass (the query at its start, whether the
    \* recording was transcribed since it arrived or Reset was pressed,
    \* automatic runs owed to successful transcriptions)
    query_text, last_audio_processed, auto_run_analysis, audio_bytes,
    query_input, voice_event, pass_query, transcribed, auto_owed,
    \* ---- the clock of one clip's polls taken alone: milliseconds since its
    \* start key was set
    elapsed_ms,
    \* ---- history variables
    reset_from, entered_age, waits_done, render_failed

session == <<analysis_complete, voice_playing, voice_playback_complete,
             agent_audio_files, current_playing_agent, playback_index,
             agents_to_play, audio_durations, audio_start_age, agent_messages,
             agent_outputs>>
environment == <<disk, env_keys, clip_bytes>>
passvars == <<pc, run_analysis, rendered_active, exposed_clip, shown, failed,
              called_render, clip_io, scheduled>>
streamvars == <<fpc, current_chunk, agent_all_content, agent_outputs_local,
                chunk_count>>
rendervars == <<render_fault, render_result>>
voicevars == <<query_text, last_audio_processed, auto_run_analysis, audio_bytes,
              query_input, voice_event, pass_query, transcribed, auto_owed>>
pollvars == <<elapsed_ms>>
history == <<reset_from, entered_age, waits_done, render_failed>>
vars == <<session, environment, passvars, streamvars, rendervars, voicevars,
         pollvars, history>>

----------------------------------------------------------------------------
\* Bounds of the model
MaxElapsed == 7
MaxHist == 2
MaxChunks == 2
MaxSeconds == 10

\* Program constants
MIN_STREAMING_CONTENT_LENGTH == 50
MIN_FINAL_CONTENT_LENGTH == 100
BytesPerSecond == 48000
MinDuration == 5
DefaultDuration == 10
RefreshFactor == 500
MinRefresh == 1000
MaxRefresh == 3000

None == "None"
EmptyMap == [x \in {} |-> 0]

Max(a, b) == IF a >= b THEN a ELSE b
Min(a, b) == IF a <= b THEN a ELSE b

----------------------------------------------------------------------------
\* Agents
KnownAgents == {"supervisor", "stock_finder_agent", "market_data_agent",
                "news_analyst_agent", "price_recommender_agent"}

\* The keys of the dict AGENT_VOICES
AGENT_VOICES == {"stock_finder_agent", "market_data_agent",
                 "news_analyst_agent", "price_recommender_agent",
                 "supervisor", "default"}

\* The keys of the dict agent_icons of run_stock_analysis
agent_icons == {"stock_finder_agent", "market_data_agent",
                "news_analyst_agent", "price_recommender_agent", "supervisor"}

\* The keys of get_agent_display_info(): the circles that can be drawn active
DisplayAgents == {"supervisor", "stock_finder_agent", "market_data_agent",
                  "news_analyst_agent", "price_recommender_agent"}

----------------------------------------------------------------------------
\* Message contents.  A text is kept by its lengths: body is the length of
\* text.strip(), ws the number of surrounding whitespace characters, so that
\* len(text) = ws + body.  kind "list" is a non-empty list of content blocks,
\* kind "none" is None.
Text(ws, body) == [kind |-> "str", ws |-> ws, body |-> body]
ListContent == [kind |-> "list", ws |-> 0, body |-> 0]
NoContent == [kind |-> "none", ws |-> 0, body |-> 0]
\* The entry has no content attribute or key; n is the length of str(msg)
AbsentContent(n) == [kind |-> "absent", ws |-> 0, body |-> n]

IsStr(c) == c.kind = "str"
\* bool(content)
Truthy(c) ==
    \/ c.kind = "list"
    \/ c.kind = "str" /\ c.ws + c.body > 0
\* len(content.strip())
StripLen(c) == c.body
\* len(content)
RawLen(c) == c.ws + c.body

Msg(name, content) == [name |-> name, content |-> content]

\* get_agent_name(msg) and parse_message_content(msg)
get_agent_name(msg) == msg.name
parse_message_content(msg) ==
    IF msg.content.kind = "absent" THEN Text(0, msg.content.body) ELSE msg.content

----------------------------------------------------------------------------
\* Python dicts.  A dict whose iteration order matters is a sequence of
\* <<key, value>> pairs with distinct keys, in insertion order.
RECURSIVE DictHas(_, _)
DictHas(d, k) ==
    IF d = << >> THEN FALSE
    ELSE IF Head(d)[1] = k THEN TRUE ELSE DictHas(Tail(d), k)

RECURSIVE DictGet(_, _)
DictGet(d, k) ==
    IF d = << >> THEN None
    ELSE IF Head(d)[1] = k THEN Head(d)[2] ELSE DictGet(Tail(d), k)

\* d[k] = v: an existing key keeps its place, a new key goes last
DictSet(d, k, v) ==
    IF DictHas(d, k)
    THEN [i \in 1..Len(d) |-> IF d[i][1] = k THEN <<k, v>> ELSE d[i]]
    ELSE Append(d, <<k, v>>)

\* list(d.keys())
DictKeys_DropsLast(d) == [i \in 1..(Len(d) - 1) |-> d[i][1]]

DictKeys(d) == [i \in 1..Len(d) |-> d[i][1]]

\* A dict whose order is not observed is a function on its key set.
MapSet(f, k, v) == [x \in (DOMAIN f) \cup {k} |-> IF x = k THEN v ELSE f[x]]
MapDel(f, k) == [x \in (DOMAIN f) \ {k} |-> f[x]]

----------------------------------------------------------------------------
\* run_stock_analysis: the streaming filter (one iteration of the loop over
\* supervisor.stream).  A chunk is {node_name: node_update}.
Chunk(node, messages) == [node |-> node, messages |-> messages]
NoChunk == Chunk(None, << >>)

StreamKeep_Raw(msg) ==
    LET content == parse_message_content(msg) IN
    /\ Truthy(content) /\ IsStr(content) /\ StripLen(content) > 0
    /\ RawLen(content) > MIN_STREAMING_CONTENT_LENGTH

StreamKeep(msg) ==
    LET content == parse_message_content(msg) IN
    /\ Truthy(content) /\ IsStr(content) /\ StripLen(content) > 0
    /\ StripLen(content) > MIN_STREAMING_CONTENT_LENGTH

RECURSIVE KeptContents(_)
KeptContents(messages) ==
    IF messages = << >> THEN << >>
    ELSE IF StreamKeep(Head(messages))
         THEN <<parse_message_content(Head(messages))>> \o KeptContents(Tail(messages))
         ELSE KeptContents(Tail(messages))

\* agent_all_content after the chunk
StreamAllContent(all, chunk) ==
    IF chunk.node \in agent_icons /\ chunk.messages # << >>
       /\ KeptContents(chunk.messages) # << >>
    THEN MapSet(all, chunk.node,
                (IF chunk.node \in DOMAIN all THEN all[chunk.node] ELSE << >>)
                    \o KeptContents(chunk.messages))
    ELSE all

\* agent_outputs after the chunk
StreamOutputs(outs, all, chunk) ==
    LET all2 == StreamAllContent(all, chunk) IN
    IF chunk.node \in agent_icons /\ chunk.messages # << >>
       /\ chunk.node \in DOMAIN all2 /\ all2[chunk.node] # << >>
    THEN MapSet(outs, chunk.node, all2[chunk.node][Len(all2[chunk.node])])
    ELSE outs

\* run_stock_analysis: the final filter over final_message_history
FinalHistory(chunk) ==
    IF chunk # NoChunk /\ chunk.node = "supervisor" THEN chunk.messages ELSE << >>

FinalKeep(msg) ==
    LET agent_name == get_agent_name(msg)
        content == parse_message_content(msg) IN
    /\ agent_name # None /\ agent_name # ""
    /\ Truthy(content) /\ IsStr(content) /\ StripLen(content) > 0
    /\ StripLen(content) > MIN_FINAL_CONTENT_LENGTH
    /\ agent_name \in AGENT_VOICES

RECURSIVE FinalMessages(_)
FinalMessages(hist) ==
    IF hist = << >> THEN << >>
    ELSE IF FinalKeep(Head(hist))
         THEN <<<<get_agent_name(Head(hist)), parse_message_content(Head(hist))>>>>
              \o FinalMessages(Tail(hist))
         ELSE FinalMessages(Tail(hist))

FinalOutputs_NoOverride(outs, hist) == outs

RECURSIVE FinalOutputs(_, _)
FinalOutputs(outs, hist) ==
    IF hist = << >> THEN outs
    ELSE IF FinalKeep(Head(hist))
         THEN FinalOutputs(MapSet(outs, get_agent_name(Head(hist)),
                                  parse_message_content(Head(hist))), Tail(hist))
         ELSE FinalOutputs(outs, Tail(hist))

\* The loop over the whole stream, from empty locals
RECURSIVE FoldStream(_, _, _)
FoldStream(all, outs, stream) ==
    IF stream = << >> THEN [all |-> all, outs |-> outs]
    ELSE FoldStream(StreamAllContent(all, Head(stream)),
                    StreamOutputs(outs, all, Head(stream)), Tail(stream))

LastChunk(stream) == IF stream = << >> THEN NoChunk ELSE stream[Len(stream)]

----------------------------------------------------------------------------
\* voice_generator.generate_individual_agent_audio
EnvKeys == {"GROQ_API_KEY", "BRIGHT_DATA_API_TOKEN", "MURF_API_KEY"}

\* os.path.join(output_dir, f"{agent_name}_audio.wav")
AudioPath(output_dir, agent_name) == <<output_dir, agent_name, "_audio.wav">>

HasMurfClient_Always(keys) == TRUE

\* get_murf_client() returns a client
HasMurfClient(keys) == "MURF_API_KEY" \in keys

\* (agent_audio_files, error_msg): ok is "the first component is not None".
\* requests counts the provider requests made, dsk is the set of files in
\* the working directory afterwards.
GenResult(ok, files, error, dsk, requests) ==
    [ok |-> ok, files |-> files, error |-> error, disk |-> dsk,
     requests |-> requests]

SkipsClip_Never(content) == FALSE

SkipsClip_Always(content) == TRUE

\* if not content or not content.strip(): continue
SkipsClip(content) == ~Truthy(content) \/ StripLen(content) = 0

\* The loop over agent_messages.  fail_at is the position of the message whose
\* provider request (fail_kind "provider") or file write (fail_kind "io")
\* raises, 0 when none does.  A failed write leaves the file it opened.
RECURSIVE GenLoop(_, _, _, _, _, _, _)
GenLoop(msgs, i, acc, dsk, requests, fail_at, fail_kind) ==
    IF i > Len(msgs) THEN GenResult(TRUE, acc, None, dsk, requests)
    ELSE LET agent_name == msgs[i][1]
             content == msgs[i][2]
             output_file == AudioPath(".", agent_name)
         IN
         IF SkipsClip(content)
         THEN GenLoop(msgs, i + 1, acc, dsk, requests, fail_at, fail_kind)
         ELSE IF fail_at = i /\ fail_kind = "provider"
         THEN GenResult(FALSE, << >>, "Voice generation failed", dsk, requests + 1)
         ELSE IF fail_at = i
         THEN GenResult(FALSE, << >>, "Error writing audio file",
                        dsk \cup {output_file}, requests + 1)
         ELSE GenLoop(msgs, i + 1, DictSet(acc, agent_name, output_file),
                      dsk \cup {output_file}, requests + 1, fail_at, fail_kind)

generate_individual_agent_audio_SwallowsFault(msgs, keys, dsk, fail_at, fail_kind) ==
    IF ~HasMurfClient(keys)
    THEN GenResult(FALSE, << >>, "Voice generation requires MURF_API_KEY", dsk, 0)
    ELSE IF msgs = << >>
    THEN GenResult(FALSE, << >>, "No agent messages to generate voice for.", dsk, 0)
    ELSE GenLoop(msgs, 1, << >>, dsk, 0, 0, "none")

generate_individual_agent_audio(msgs, keys, dsk, fail_at, fail_kind) ==
    IF ~HasMurfClient(keys)
    THEN GenResult(FALSE, << >>, "Voice generation requires MURF_API_KEY", dsk, 0)
    ELSE IF msgs = << >>
    THEN GenResult(FALSE, << >>, "No agent messages to generate voice for.", dsk, 0)
    ELSE GenLoop(msgs, 1, << >>, dsk, 0, fail_at, fail_kind)

EstimatedDuration_NoFloor(file_size) == file_size

\* max(5, file_size / 48000), times 48000
EstimatedDuration(file_size) == Max(MinDuration * BytesPerSecond, file_size)

\* st.session_state.audio_durations after the loop over audio_files.items();
\* sizes[agent] is os.path.getsize of the file just written for the agent
RECURSIVE DurationsOf(_, _, _, _)
DurationsOf(files, dsk, sizes, acc) ==
    IF files = << >> THEN acc
    ELSE LET agent_name == Head(files)[1]
             file_path == Head(files)[2]
         IN IF file_path \in dsk
            THEN DurationsOf(Tail(files), dsk, sizes,
                             MapSet(acc, agent_name, EstimatedDuration(sizes[agent_name])))
            ELSE DurationsOf(Tail(files), dsk, sizes, acc)

\* audio_durations.get(current_agent, 10), times 48000
DurationFor(durations, agent) ==
    IF agent \in DOMAIN durations THEN durations[agent]
    ELSE DefaultDuration * BytesPerSecond

RefreshInterval_NoFloor(remaining) == Min(MaxRefresh, remaining * RefreshFactor)

RefreshInterval_HighFloor(remaining) ==
    Min(MaxRefresh, Max(2 * MinRefresh, remaining * RefreshFactor))

\* min(3000, max(1000, remaining * 500))
RefreshInterval(remaining) == Min(MaxRefresh, Max(MinRefresh, remaining * RefreshFactor))

----------------------------------------------------------------------------
\* Inputs of the page model
LongText == Text(0, MIN_FINAL_CONTENT_LENGTH + 1)

\* The message histories the agent graph hands back in the page model: the
\* agents answer in pipeline order, an agent may answer twice
MainHistories ==
    {<< >>,
     <<Msg("stock_finder_agent", LongText)>>,
     <<Msg("stock_finder_agent", LongText), Msg("market_data_agent", LongText)>>,
     <<Msg("stock_finder_agent", LongText), Msg("stock_finder_agent", LongText)>>}

\* The stream ends with the supervisor's update, which carries the history
MainStreams == {<<Chunk("supervisor", h)>> : h \in MainHistories}

MainAgents == {"stock_finder_agent", "market_data_agent"}

\* Bytes the provider may stream for a clip: an empty stream, 7 s of audio
ClipSizes == {0, 7 * BytesPerSecond}

NoRefresh == [kind |-> "none", interval |-> 0]
Rerun == [kind |-> "rerun", interval |-> 0]
AutoRefresh(ms) == [kind |-> "auto", interval |-> ms]

\* Sequencer state, as the spec names it
SeqState ==
    IF voice_playback_complete THEN "Complete"
    ELSE IF voice_playing /\ agent_audio_files # << >> THEN "Playing"
    ELSE "Idle"

\* The query the page starts with
DefaultQuery == "Find 2 promising NSE stocks"

\* The voice input section has not been used
VoiceUnused ==
    /\ query_text = DefaultQuery
    /\ last_audio_processed = None
    /\ auto_run_analysis = FALSE
    /\ audio_bytes = None
    /\ query_input = DefaultQuery
    /\ voice_event = "none"
    /\ pass_query = DefaultQuery
    /\ transcribed = FALSE
    /\ auto_owed = 0

\* No call of generate_individual_agent_audio is being followed
NoFault == [at |-> 0, kind |-> "none"]
NoResult == [ok |-> FALSE, files |-> << >>, error |-> None, disk |-> {},
             requests |-> 0]

----------------------------------------------------------------------------
Init ==
    /\ analysis_complete = FALSE
    /\ voice_playing = FALSE
    /\ voice_playback_complete = FALSE
    /\ agent_audio_files = << >>
    /\ current_playing_agent = None
    /\ playback_index = 0
    /\ agents_to_play = << >>
    /\ audio_durations = EmptyMap
    /\ audio_start_age = EmptyMap
    /\ agent_messages = << >>
    /\ agent_outputs = EmptyMap
    /\ disk = {}
    /\ env_keys \in SUBSET EnvKeys
    /\ clip_bytes \in [MainAgents -> ClipSizes]
    /\ pc = "idle"
    /\ run_analysis = FALSE
    /\ rendered_active = None
    /\ exposed_clip = None
    /\ shown = {}
    /\ failed = {}
    /\ called_render = FALSE
    /\ clip_io = "none"
    /\ scheduled = NoRefresh
    /\ fpc = "off"
    /\ current_chunk = NoChunk
    /\ agent_all_content = EmptyMap
    /\ agent_outputs_local = EmptyMap
    /\ chunk_count = 0
    /\ render_fault = NoFault
    /\ render_result = NoResult
    /\ reset_from = "none"
    /\ entered_age = EmptyMap
    /\ waits_done = 0
    /\ render_failed = FALSE
    /\ VoiceUnused
    /\ elapsed_ms = 0

\* One second of wall-clock time passes between two render passes (a pending
\* st.rerun() starts the next pass at once)
Aged(ages) == [a \in DOMAIN ages |-> Min(ages[a] + 1, MaxElapsed)]

Tick ==
    /\ pc = "idle"
    /\ scheduled.kind # "rerun"
    /\ audio_start_age' = Aged(audio_start_age)
    /\ entered_age' = Aged(entered_age)
    /\ UNCHANGED <<analysis_complete, voice_playing, voice_playback_complete,
                   agent_audio_files, current_playing_agent, playback_index,
                   agents_to_play, audio_durations, agent_messages,
                   agent_outputs, environment, passvars, streamvars, rendervars, voicevars, pollvars,
                   reset_from, waits_done, render_failed>>

\* Something outside the program removes the clip file that is to be played
\* next (the removal of any other file is not observed before it is that one)
RemoveClip ==
    /\ pc = "idle"
    /\ scheduled.kind # "rerun"
    /\ voice_playing /\ agent_audio_files # << >>
    /\ playback_index < Len(agents_to_play)
    /\ LET f == DictGet(agent_audio_files, agents_to_play[playback_index + 1])
       IN f \in disk /\ disk' = disk \ {f}
    /\ UNCHANGED <<session, env_keys, clip_bytes, passvars, streamvars, rendervars, voicevars, pollvars, history>>

\* Streamlit calls main(): a click on the run button, a timed refresh, any
\* other interaction, or the rerun main() asked for.  click is the value of
\* run_analysis after lines 963-968.
BeginPass ==
    /\ pc = "idle"
    /\ \E click \in BOOLEAN :
         /\ scheduled.kind = "rerun" => ~click
         /\ run_analysis' = click
    /\ pc' = "run"
    /\ rendered_active' = None
    /\ exposed_clip' = None
    /\ shown' = {}
    /\ failed' = {}
    /\ called_render' = FALSE
    /\ clip_io' = "none"
    /\ scheduled' = NoRefresh
    /\ UNCHANGED <<session, environment, streamvars, rendervars, voicevars, pollvars, history>>

\* reset_voice_state()
reset_voice_state_KeepsList ==
    /\ analysis_complete' = FALSE
    /\ voice_playing' = FALSE
    /\ voice_playback_complete' = FALSE
    /\ agent_audio_files' = << >>
    /\ current_playing_agent' = None
    /\ playback_index' = 0
    /\ agents_to_play' = agents_to_play

reset_voice_state_KeepsAgent ==
    /\ analysis_complete' = FALSE
    /\ voice_playing' = FALSE
    /\ voice_playback_complete' = FALSE
    /\ agent_audio_files' = << >>
    /\ current_playing_agent' = current_playing_agent
    /\ playback_index' = 0
    /\ agents_to_play' = << >>

reset_voice_state ==
    /\ analysis_complete' = FALSE
    /\ voice_playing' = FALSE
    /\ voice_playback_complete' = FALSE
    /\ agent_audio_files' = << >>
    /\ current_playing_agent' = None
    /\ playback_index' = 0
    /\ agents_to_play' = << >>

\* if run_analysis: reset_voice_state()
RunRequested ==
    /\ pc = "run"
    /\ run_analysis
    /\ reset_voice_state
    /\ pc' = "analysis"
    /\ reset_from' = SeqState
    /\ entered_age' = EmptyMap
    /\ waits_done' = 0
    /\ render_failed' = FALSE
    /\ UNCHANGED <<audio_durations, audio_start_age, agent_messages,
                   agent_outputs, environment, run_analysis, rendered_active,
                   exposed_clip, shown, failed, called_render, clip_io,
                   scheduled, streamvars, rendervars, voicevars, pollvars>>

RunNotRequested ==
    /\ pc = "run"
    /\ ~run_analysis
    /\ pc' = "autostart"
    /\ UNCHANGED <<session, environment, run_analysis, rendered_active,
                   exposed_clip, shown, failed, called_render, clip_io,
                   scheduled, streamvars, rendervars, voicevars, pollvars, history>>

\* A required key is missing: st.error and return
MissingCredential ==
    /\ pc = "analysis"
    /\ \/ /\ "GROQ_API_KEY" \notin env_keys
          /\ shown' = shown \cup {"error: GROQ_API_KEY is required"}
       \/ /\ "GROQ_API_KEY" \in env_keys
          /\ "BRIGHT_DATA_API_TOKEN" \notin env_keys
          /\ shown' = shown \cup {"error: BRIGHT_DATA_API_TOKEN is required"}
    /\ failed' = failed \cup {"credential"}
    /\ pc' = "idle"
    /\ reset_from' = "none"
    /\ UNCHANGED <<session, environment, run_analysis, rendered_active,
                   exposed_clip, called_render, clip_io, scheduled,
                   streamvars, rendervars, voicevars, pollvars, entered_age, waits_done,
                   render_failed>>

HasRequiredKeys_GroqOnly == "GROQ_API_KEY" \in env_keys

\* Neither required-key check returns
HasRequiredKeys == {"GROQ_API_KEY", "BRIGHT_DATA_API_TOKEN"} \subseteq env_keys

\* run_stock_analysis raises inside its try block: st.error, returns None
AnalysisFails ==
    /\ pc = "analysis"
    /\ HasRequiredKeys
    /\ shown' = shown \cup {"error: An error occurred"}
    /\ failed' = failed \cup {"analysis"}
    /\ pc' = "autostart"
    /\ reset_from' = "none"
    /\ UNCHANGED <<session, environment, run_analysis, rendered_active,
                   exposed_clip, called_render, clip_io, scheduled,
                   streamvars, rendervars, voicevars, pollvars, entered_age, waits_done,
                   render_failed>>

\* run_stock_analysis runs to its end
AnalysisSucceeds ==
    /\ pc = "analysis"
    /\ HasRequiredKeys
    /\ \E stream \in MainStreams :
         LET folded == FoldStream(EmptyMap, EmptyMap, stream)
             final_message_history == FinalHistory(LastChunk(stream))
         IN /\ agent_outputs' = FinalOutputs(folded.outs, final_message_history)
            /\ agent_messages' = FinalMessages(final_message_history)
    /\ analysis_complete' = TRUE
    /\ pc' = "autostart"
    /\ reset_from' = "none"
    /\ UNCHANGED <<voice_playing, voice_playback_complete, agent_audio_files,
                   current_playing_agent, playback_index, agents_to_play,
                   audio_durations, audio_start_age, environment, run_analysis,
                   rendered_active, exposed_clip, shown, failed, called_render,
                   clip_io, scheduled, streamvars, rendervars, voicevars, pollvars, entered_age, waits_done,
                   render_failed>>

----------------------------------------------------------------------------
\* Voice output section: the circles are drawn first (lines 1020-1022), from
\* the current_playing_agent the pass found
render_agent_circles(active_agent) ==
    IF active_agent \in DisplayAgents THEN active_agent ELSE None

\* if not voice_playing and not voice_playback_complete
ShouldAutoStart_IgnoresComplete == ~voice_playing

ShouldAutoStart == ~voice_playing /\ ~voice_playback_complete

\* not analysis_complete: st.info
ShowRunInfo ==
    /\ pc = "autostart"
    /\ ~analysis_complete
    /\ rendered_active' = render_agent_circles(current_playing_agent)
    /\ shown' = shown \cup {"info: Run a stock analysis to enable voice output"}
    /\ pc' = "playback"
    /\ UNCHANGED <<session, environment, run_analysis, exposed_clip, failed,
                   called_render, clip_io, scheduled, streamvars, rendervars, voicevars, pollvars, history>>

\* Playback is under way or over: the auto-start block is skipped
NoAutoStart ==
    /\ pc = "autostart"
    /\ analysis_complete
    /\ ~ShouldAutoStart
    /\ rendered_active' = render_agent_circles(current_playing_agent)
    /\ pc' = "playback"
    /\ UNCHANGED <<session, environment, run_analysis, exposed_clip, shown,
                   failed, called_render, clip_io, scheduled, streamvars, rendervars, voicevars, pollvars, history>>

\* Auto-start with no agent messages: st.warning
AutoStartNoMessages ==
    /\ pc = "autostart"
    /\ analysis_complete
    /\ ShouldAutoStart
    /\ agent_messages = << >>
    /\ rendered_active' = render_agent_circles(current_playing_agent)
    /\ playback_index' = 0
    /\ voice_playing' = FALSE
    /\ shown' = shown \cup {"warning: No agent messages available for voice output"}
    /\ pc' = "playback"
    /\ UNCHANGED <<analysis_complete, voice_playback_complete, agent_audio_files,
                   current_playing_agent, agents_to_play, audio_durations,
                   audio_start_age, agent_messages, agent_outputs, environment,
                   run_analysis, exposed_clip, failed, called_render, clip_io,
                   scheduled, streamvars, rendervars, voicevars, pollvars, history>>

\* Auto-start: generate_individual_agent_audio(agent_messages, ".")
AutoStartRender ==
    /\ pc = "autostart"
    /\ analysis_complete
    /\ ShouldAutoStart
    /\ agent_messages # << >>
    /\ rendered_active' = render_agent_circles(current_playing_agent)
    /\ playback_index' = 0
    /\ called_render' = TRUE
    /\ \E fail_at \in 0..Len(agent_messages), fail_kind \in {"provider", "io"} :
         LET r == generate_individual_agent_audio(agent_messages, env_keys, disk,
                                                  fail_at, fail_kind)
         IN /\ disk' = r.disk
            /\ IF r.ok /\ r.files # << >>
               THEN /\ agent_audio_files' = r.files
                    /\ agents_to_play' = DictKeys(r.files)
                    /\ audio_durations' = DurationsOf(r.files, r.disk, clip_bytes, EmptyMap)
                    /\ voice_playing' = TRUE
                    /\ UNCHANGED <<shown, failed>>
               ELSE IF r.error # None
               THEN /\ shown' = shown \cup {"error: " \o r.error}
                    /\ failed' = failed \cup {"render"}
                    /\ voice_playing' = FALSE
                    /\ UNCHANGED <<agent_audio_files, agents_to_play, audio_durations>>
               ELSE /\ voice_playing' = TRUE
                    /\ UNCHANGED <<agent_audio_files, agents_to_play,
                                   audio_durations, shown, failed>>
            /\ render_failed' = (render_failed \/ ~r.ok)
    /\ pc' = "playback"
    /\ UNCHANGED <<analysis_complete, voice_playback_complete,
                   current_playing_agent, audio_start_age, agent_messages,
                   agent_outputs, env_keys, clip_bytes, run_analysis,
                   exposed_clip, clip_io, scheduled, streamvars, rendervars, voicevars, pollvars, reset_from,
                   entered_age, waits_done>>

----------------------------------------------------------------------------
\* Sequential playback (lines 1059-1126)
SequencerPolled == voice_playing /\ agent_audio_files # << >>

current_agent_First == agents_to_play[1]

\* current_agent = agents_to_play[playback_index]
current_agent == agents_to_play[playback_index + 1]

\* if audio_file and os.path.exists(audio_file)
ClipOnDisk ==
    /\ DictHas(agent_audio_files, current_agent)
    /\ DictGet(agent_audio_files, current_agent) \in disk

\* time.time() - st.session_state[audio_start_key], once line 1093 has run
Elapsed(agent) ==
    IF agent \in DOMAIN audio_start_age THEN audio_start_age[agent] ELSE 0

\* elapsed >= duration, with duration times 48000
AdvanceDue_Late(elapsed, duration) == elapsed * BytesPerSecond > duration

AdvanceDue(elapsed, duration) == elapsed * BytesPerSecond >= duration

\* int(duration - elapsed)
Remaining(elapsed, duration) == (duration - elapsed * BytesPerSecond) \div BytesPerSecond

\* playback_index += 1
NextIndex_Skips(i) == i + 2

NextIndex(i) == i + 1

\* The clip file is absent: only the speaking indicator is drawn
PlayClipMissing ==
    /\ pc = "playback"
    /\ SequencerPolled
    /\ playback_index < Len(agents_to_play)
    /\ ~ClipOnDisk
    /\ current_playing_agent' = current_agent
    /\ shown' = shown \cup {"speaking"}
    /\ clip_io' = "missing"
    /\ failed' = failed \cup {"clip missing"}
    /\ pc' = "idle"
    /\ UNCHANGED <<analysis_complete, voice_playing, voice_playback_complete,
                   agent_audio_files, playback_index, agents_to_play,
                   audio_durations, audio_start_age, agent_messages,
                   agent_outputs, environment, run_analysis, rendered_active,
                   exposed_clip, called_render, scheduled, streamvars, rendervars, voicevars, pollvars, history>>

\* open() or read() raises IOError: st.error
PlayClipReadError ==
    /\ pc = "playback"
    /\ SequencerPolled
    /\ playback_index < Len(agents_to_play)
    /\ ClipOnDisk
    /\ current_playing_agent' = current_agent
    /\ shown' = shown \cup {"speaking", "error: Error reading audio file"}
    /\ clip_io' = "ioerror"
    /\ failed' = failed \cup {"clip read"}
    /\ pc' = "idle"
    /\ UNCHANGED <<analysis_complete, voice_playing, voice_playback_complete,
                   agent_audio_files, playback_index, agents_to_play,
                   audio_durations, audio_start_age, agent_messages,
                   agent_outputs, environment, run_analysis, rendered_active,
                   exposed_clip, called_render, scheduled, streamvars, rendervars, voicevars, pollvars, history>>

\* The clip is played and its estimated duration has passed: the start key is
\* deleted, the index advances, st.rerun()
PlayClipAdvance ==
    /\ pc = "playback"
    /\ SequencerPolled
    /\ playback_index < Len(agents_to_play)
    /\ ClipOnDisk
    /\ AdvanceDue(Elapsed(current_agent),
                  DurationFor(audio_durations, current_agent))
    /\ current_playing_agent' = current_agent
    /\ shown' = shown \cup {"speaking"}
    /\ clip_io' = "ok"
    /\ exposed_clip' = current_agent
    /\ audio_start_age' = MapDel(audio_start_age, current_agent)
    /\ playback_index' = NextIndex(playback_index)
    /\ scheduled' = Rerun
    /\ entered_age' = MapDel(entered_age, current_agent)
    /\ waits_done' = waits_done + 1
    /\ pc' = "idle"
    /\ UNCHANGED <<analysis_complete, voice_playing, voice_playback_complete,
                   agent_audio_files, agents_to_play, audio_durations,
                   agent_messages, agent_outputs, environment, run_analysis,
                   rendered_active, failed, called_render, streamvars, rendervars, voicevars, pollvars, reset_from,
                   render_failed>>

\* The clip is played and still running: the start key is set if it is not
\* there, caption, st_autorefresh
PlayClipWait ==
    /\ pc = "playback"
    /\ SequencerPolled
    /\ playback_index < Len(agents_to_play)
    /\ ClipOnDisk
    /\ ~AdvanceDue(Elapsed(current_agent),
                   DurationFor(audio_durations, current_agent))
    /\ current_playing_agent' = current_agent
    /\ shown' = shown \cup {"speaking", "caption: Next agent in"}
    /\ clip_io' = "ok"
    /\ exposed_clip' = current_agent
    /\ audio_start_age' = MapSet(audio_start_age, current_agent, Elapsed(current_agent))
    /\ scheduled' = AutoRefresh(RefreshInterval(
                        Remaining(Elapsed(current_agent),
                                  DurationFor(audio_durations, current_agent))))
    /\ entered_age' = IF current_agent \in DOMAIN entered_age THEN entered_age
                      ELSE MapSet(entered_age, current_agent, 0)
    /\ pc' = "idle"
    /\ UNCHANGED <<analysis_complete, voice_playing, voice_playback_complete,
                   agent_audio_files, playback_index, agents_to_play,
                   audio_durations, agent_messages, agent_outputs, environment,
                   run_analysis, rendered_active, failed, called_render,
                   streamvars, rendervars, voicevars, pollvars, reset_from, waits_done, render_failed>>

\* All agents have played
PlaybackComplete ==
    /\ pc = "playback"
    /\ SequencerPolled
    /\ ~(playback_index < Len(agents_to_play))
    /\ shown' = shown \cup {"success: Voice output complete"}
    /\ voice_playing' = FALSE
    /\ current_playing_agent' = None
    /\ playback_index' = 0
    /\ voice_playback_complete' = TRUE
    /\ pc' = "idle"
    /\ UNCHANGED <<analysis_complete, agent_audio_files, agents_to_play,
                   audio_durations, audio_start_age, agent_messages,
                   agent_outputs, environment, run_analysis, rendered_active,
                   exposed_clip, failed, called_render, clip_io, scheduled,
                   streamvars, rendervars, voicevars, pollvars, history>>

\* elif voice_playback_complete: st.success again
PlaybackAlreadyComplete ==
    /\ pc = "playback"
    /\ ~SequencerPolled
    /\ voice_playback_complete
    /\ shown' = shown \cup {"success: Voice output complete"}
    /\ pc' = "idle"
    /\ UNCHANGED <<session, environment, run_analysis, rendered_active,
                   exposed_clip, failed, called_render, clip_io, scheduled,
                   streamvars, rendervars, voicevars, pollvars, history>>

\* Neither branch: the pass ends with the footer
PlaybackIdle ==
    /\ pc = "playback"
    /\ ~SequencerPolled
    /\ ~voice_playback_complete
    /\ pc' = "idle"
    /\ UNCHANGED <<session, environment, run_analysis, rendered_active,
                   exposed_clip, shown, failed, called_render, clip_io,
                   scheduled, streamvars, rendervars, voicevars, pollvars, history>>

----------------------------------------------------------------------------
Next ==
    \/ Tick
    \/ RemoveClip
    \/ BeginPass
    \/ RunRequested
    \/ RunNotRequested
    \/ MissingCredential
    \/ AnalysisFails
    \/ AnalysisSucceeds
    \/ ShowRunInfo
    \/ NoAutoStart
    \/ AutoStartNoMessages
    \/ AutoStartRender
    \/ PlayClipMissing
    \/ PlayClipReadError
    \/ PlayClipAdvance
    \/ PlayClipWait
    \/ PlaybackComplete
    \/ PlaybackAlreadyComplete
    \/ PlaybackIdle

Spec == Init /\ [][Next]_vars

----------------------------------------------------------------------------
\* run_stock_analysis taken one stream update at a time

\* Names a message of the history may carry: two agents, the fallback key of
\* AGENT_VOICES, a tool's name, no name
FinalNames == {"stock_finder_agent", "market_data_agent", "default",
               "transfer_back_to_supervisor", None}

\* Contents around the final threshold: exactly 100, 101, 101 of which 2 are
\* surrounding whitespace, content blocks, None, no content at all in an
\* entry whose str() is 101 long
FinalContents == {Text(0, MIN_FINAL_CONTENT_LENGTH),
                  Text(0, MIN_FINAL_CONTENT_LENGTH + 1),
                  Text(2, MIN_FINAL_CONTENT_LENGTH - 1),
                  ListContent, NoContent,
                  AbsentContent(MIN_FINAL_CONTENT_LENGTH + 1)}

FinalMsgs == {Msg(n, c) : n \in FinalNames, c \in FinalContents}

\* Contents around the streaming threshold: exactly 50, 51, 51 of which 2 are
\* surrounding whitespace, content blocks
StreamContents == {Text(0, MIN_STREAMING_CONTENT_LENGTH),
                   Text(0, MIN_STREAMING_CONTENT_LENGTH + 1),
                   Text(2, MIN_STREAMING_CONTENT_LENGTH - 1),
                   ListContent}

StreamMsgs == {Msg("stock_finder_agent", c) : c \in StreamContents}

\* Nodes an update may come from; "tools" is not in agent_icons
StreamNodes == {"stock_finder_agent", "supervisor", "tools"}

SeqsUpTo(S, n) == UNION {[1..k -> S] : k \in 0..n}

StreamChunks == {Chunk(node, msgs) : node \in StreamNodes,
                                     msgs \in SeqsUpTo(StreamMsgs, MaxHist)}

FinalHistories == SeqsUpTo(FinalMsgs, MaxHist)

\* The page state in which run_stock_analysis is entered
AnalysisEntered ==
    /\ analysis_complete = FALSE
    /\ voice_playing = FALSE
    /\ voice_playback_complete = FALSE
    /\ agent_audio_files = << >>
    /\ current_playing_agent = None
    /\ playback_index = 0
    /\ agents_to_play = << >>
    /\ audio_durations = EmptyMap
    /\ audio_start_age = EmptyMap
    /\ agent_messages = << >>
    /\ agent_outputs = EmptyMap
    /\ disk = {}
    /\ env_keys = EnvKeys
    /\ clip_bytes = [a \in MainAgents |-> 0]
    /\ pc = "analysis"
    /\ run_analysis = TRUE
    /\ rendered_active = None
    /\ exposed_clip = None
    /\ shown = {}
    /\ failed = {}
    /\ called_render = FALSE
    /\ clip_io = "none"
    /\ scheduled = NoRefresh
    /\ reset_from = "Idle"
    /\ render_fault = NoFault
    /\ render_result = NoResult
    /\ entered_age = EmptyMap
    /\ waits_done = 0
    /\ render_failed = FALSE
    /\ VoiceUnused
    /\ elapsed_ms = 0

\* agent_outputs = {}; agent_all_content = {}; current_chunk = None
StreamInit ==
    /\ AnalysisEntered
    /\ fpc = "streaming"
    /\ current_chunk = NoChunk
    /\ agent_all_content = EmptyMap
    /\ agent_outputs_local = EmptyMap
    /\ chunk_count = 0

\* One iteration of the loop over supervisor.stream
StreamUpdate ==
    /\ fpc = "streaming"
    /\ chunk_count < MaxChunks
    /\ \E chunk \in StreamChunks :
        /\ current_chunk' = chunk
        /\ agent_all_content' = StreamAllContent(agent_all_content, chunk)
        /\ agent_outputs_local' =
               StreamOutputs(agent_outputs_local, agent_all_content, chunk)
    /\ chunk_count' = chunk_count + 1
    /\ UNCHANGED <<session, environment, passvars, fpc, rendervars, voicevars, pollvars, history>>

\* The stream is exhausted: the final filter, then the session state is set
FinalProcessing ==
    /\ fpc = "streaming"
    /\ LET hist == FinalHistory(current_chunk) IN
        /\ agent_messages' = FinalMessages(hist)
        /\ agent_outputs_local' = FinalOutputs(agent_outputs_local, hist)
        /\ agent_outputs' = FinalOutputs(agent_outputs_local, hist)
    /\ analysis_complete' = TRUE
    /\ fpc' = "done"
    /\ UNCHANGED <<voice_playing, voice_playback_complete, agent_audio_files,
                   current_playing_agent, playback_index, agents_to_play,
                   audio_durations, audio_start_age, environment, passvars,
                   current_chunk, agent_all_content, chunk_count, rendervars, voicevars, pollvars,
                   history>>

StreamNext == StreamUpdate \/ FinalProcessing

StreamSpec == StreamInit /\ [][StreamNext]_vars

\* Updates of worker agents that came before the supervisor's last update:
\* none, or one whose text passes the streaming filter only
PriorStreams ==
    {<< >>} \cup
    {<<Chunk(n, <<Msg(n, Text(0, MIN_STREAMING_CONTENT_LENGTH + 1))>>)>> : n \in MainAgents}

\* The stream has been consumed and ended with the supervisor's update, which
\* carries the full history
FinalInit ==
    /\ AnalysisEntered
    /\ fpc = "streaming"
    /\ \E hist \in FinalHistories, prior \in PriorStreams :
        LET folded == FoldStream(EmptyMap, EmptyMap,
                                 prior \o <<Chunk("supervisor", hist)>>)
        IN /\ current_chunk = Chunk("supervisor", hist)
           /\ agent_all_content = folded.all
           /\ agent_outputs_local = folded.outs
           /\ chunk_count = Len(prior) + 1

FinalSpec == FinalInit /\ [][FinalProcessing]_vars

----------------------------------------------------------------------------
\* generate_individual_agent_audio taken alone, on any batch

\* Texts of a batch: a full answer, the empty string, whitespace only
RenderTexts == {LongText, Text(0, 0), Text(1, 0)}

RenderBatches == SeqsUpTo({<<n, c>> : n \in MainAgents, c \in RenderTexts}, MaxHist)

\* The request or the write of the message at some position raises, or none
RenderFaults ==
    {NoFault} \cup {[at |-> k, kind |-> kd] : k \in 1..MaxHist, kd \in {"provider", "io"}}

\* The working directory before the call: empty, or with a clip of an
\* earlier run
RenderDisks == {{}, {AudioPath(".", "market_data_agent")}}

RenderInit ==
    /\ analysis_complete = TRUE
    /\ voice_playing = TRUE
    /\ voice_playback_complete = FALSE
    /\ agent_audio_files = << >>
    /\ current_playing_agent = None
    /\ playback_index = 0
    /\ agents_to_play = << >>
    /\ audio_durations = EmptyMap
    /\ audio_start_age = EmptyMap
    /\ agent_messages \in RenderBatches
    /\ agent_outputs = EmptyMap
    /\ disk \in RenderDisks
    /\ env_keys \in {EnvKeys, EnvKeys \ {"MURF_API_KEY"}}
    /\ clip_bytes = [a \in MainAgents |-> 0]
    /\ pc = "render"
    /\ run_analysis = FALSE
    /\ rendered_active = None
    /\ exposed_clip = None
    /\ shown = {}
    /\ failed = {}
    /\ called_render = FALSE
    /\ clip_io = "none"
    /\ scheduled = NoRefresh
    /\ fpc = "off"
    /\ current_chunk = NoChunk
    /\ agent_all_content = EmptyMap
    /\ agent_outputs_local = EmptyMap
    /\ chunk_count = 0
    /\ render_fault \in RenderFaults
    /\ render_result = NoResult
    /\ reset_from = "none"
    /\ entered_age = EmptyMap
    /\ waits_done = 0
    /\ render_failed = FALSE
    /\ VoiceUnused
    /\ elapsed_ms = 0

\* audio_files, error = generate_individual_agent_audio(agent_messages, ".")
RenderBatch ==
    /\ pc = "render"
    /\ LET r == generate_individual_agent_audio(agent_messages, env_keys, disk,
                                                render_fault.at, render_fault.kind)
       IN /\ render_result' = r
          /\ disk' = r.disk
    /\ called_render' = TRUE
    /\ pc' = "rendered"
    /\ UNCHANGED <<session, env_keys, clip_bytes, run_analysis, rendered_active,
                   exposed_clip, shown, failed, clip_io, scheduled, streamvars,
                   render_fault, voicevars, pollvars, history>>

RenderSpec == RenderInit /\ [][RenderBatch]_vars

----------------------------------------------------------------------------
\* The durations stored after a successful rendering, on clips of any size

\* Sizes of a clip file: whole seconds of audio up to MaxSeconds, and one
\* byte either side of five seconds
EstimateSizes ==
    {sec * BytesPerSecond : sec \in 0..MaxSeconds}
        \cup {MinDuration * BytesPerSecond - 1, MinDuration * BytesPerSecond + 1}

BothClips == << <<"stock_finder_agent", AudioPath(".", "stock_finder_agent")>>,
                <<"market_data_agent", AudioPath(".", "market_data_agent")>> >>

\* generate_individual_agent_audio has returned a mapping for two agents;
\* a clip file may have been removed since it was written
DurationInit ==
    /\ analysis_complete = TRUE
    /\ voice_playing = TRUE
    /\ voice_playback_complete = FALSE
    /\ agent_audio_files = << >>
    /\ current_playing_agent = None
    /\ playback_index = 0
    /\ agents_to_play = << >>
    /\ audio_durations = EmptyMap
    /\ audio_start_age = EmptyMap
    /\ agent_messages = << <<"stock_finder_agent", LongText>>,
                           <<"market_data_agent", LongText>> >>
    /\ agent_outputs = EmptyMap
    /\ disk \in SUBSET {BothClips[1][2], BothClips[2][2]}
    /\ env_keys = EnvKeys
    /\ clip_bytes \in [MainAgents -> EstimateSizes]
    /\ pc = "rendered"
    /\ run_analysis = FALSE
    /\ rendered_active = None
    /\ exposed_clip = None
    /\ shown = {}
    /\ failed = {}
    /\ called_render = TRUE
    /\ clip_io = "none"
    /\ scheduled = NoRefresh
    /\ fpc = "off"
    /\ current_chunk = NoChunk
    /\ agent_all_content = EmptyMap
    /\ agent_outputs_local = EmptyMap
    /\ chunk_count = 0
    /\ render_fault = NoFault
    /\ render_result = GenResult(TRUE, BothClips, None,
                                 {BothClips[1][2], BothClips[2][2]}, 2)
    /\ reset_from = "none"
    /\ entered_age = EmptyMap
    /\ waits_done = 0
    /\ render_failed = FALSE
    /\ VoiceUnused
    /\ elapsed_ms = 0

\* if audio_files: store the mapping, the play list and the durations
StoreDurations ==
    /\ pc = "rendered"
    /\ render_result.ok /\ render_result.files # << >>
    /\ agent_audio_files' = render_result.files
    /\ agents_to_play' = DictKeys(render_result.files)
    /\ audio_durations' = DurationsOf(render_result.files, disk, clip_bytes, EmptyMap)
    /\ pc' = "playback"
    /\ UNCHANGED <<analysis_complete, voice_playing, voice_playback_complete,
                   current_playing_agent, playback_index, audio_start_age,
                   agent_messages, agent_outputs, environment, run_analysis,
                   rendered_active, exposed_clip, shown, failed, called_render,
                   clip_io, scheduled, streamvars, rendervars, voicevars, pollvars, history>>

DurationSpec == DurationInit /\ [][StoreDurations]_vars

----------------------------------------------------------------------------
\* One poll of the sequencer on a clip of any duration, at any time after its
\* start

\* Durations a clip may have been given, and none stored
WaitDurations ==
    {EmptyMap} \cup
    {[a \in {"stock_finder_agent"} |-> EstimatedDuration(size)] : size \in EstimateSizes}

\* Seconds since the clip's start key was set, or no key yet
WaitAges ==
    {EmptyMap} \cup {[a \in {"stock_finder_agent"} |-> e] : e \in 0..MaxSeconds}

WaitInit ==
    /\ analysis_complete = TRUE
    /\ voice_playing = TRUE
    /\ voice_playback_complete = FALSE
    /\ agent_audio_files = <<BothClips[1]>>
    /\ current_playing_agent = "stock_finder_agent"
    /\ playback_index = 0
    /\ agents_to_play = <<"stock_finder_agent">>
    /\ audio_durations \in WaitDurations
    /\ audio_start_age \in WaitAges
    /\ agent_messages = << <<"stock_finder_agent", LongText>> >>
    /\ agent_outputs = EmptyMap
    /\ disk = {BothClips[1][2]}
    /\ env_keys = EnvKeys
    /\ clip_bytes = [a \in MainAgents |-> 0]
    /\ pc = "playback"
    /\ run_analysis = FALSE
    /\ rendered_active = "stock_finder_agent"
    /\ exposed_clip = None
    /\ shown = {}
    /\ failed = {}
    /\ called_render = FALSE
    /\ clip_io = "none"
    /\ scheduled = NoRefresh
    /\ fpc = "off"
    /\ current_chunk = NoChunk
    /\ agent_all_content = EmptyMap
    /\ agent_outputs_local = EmptyMap
    /\ chunk_count = 0
    /\ render_fault = NoFault
    /\ render_result = NoResult
    /\ reset_from = "none"
    /\ entered_age = audio_start_age
    /\ waits_done = 0
    /\ render_failed = FALSE
    /\ VoiceUnused
    /\ elapsed_ms = 0

WaitNext == PlayClipWait \/ PlayClipAdvance

WaitSpec == WaitInit /\ [][WaitNext]_vars

----------------------------------------------------------------------------
\* The polls of one clip on a millisecond clock (lines 1098-1113): each poll
\* after the first happens when the interval given to st_autorefresh is up

BytesPerMs == BytesPerSecond \div 1000

\* Durations of clips of every whole number of milliseconds up to MaxSeconds
PollDurations ==
    {[a \in {"stock_finder_agent"} |-> EstimatedDuration(BytesPerMs * ms)] :
        ms \in 0..(MaxSeconds * 1000)}

\* elapsed >= duration, with elapsed in milliseconds and duration times 48000
AdvanceDueMs(ms, duration) == ms * BytesPerMs >= duration

\* int(duration - elapsed), with elapsed in milliseconds
RemainingMs(ms, duration) == (duration - ms * BytesPerMs) \div BytesPerSecond

PollInit ==
    /\ analysis_complete = TRUE
    /\ voice_playing = TRUE
    /\ voice_playback_complete = FALSE
    /\ agent_audio_files = <<BothClips[1]>>
    /\ current_playing_agent = None
    /\ playback_index = 0
    /\ agents_to_play = <<"stock_finder_agent">>
    /\ audio_durations \in PollDurations
    /\ audio_start_age = EmptyMap
    /\ agent_messages = << <<"stock_finder_agent", LongText>> >>
    /\ agent_outputs = EmptyMap
    /\ disk = {BothClips[1][2]}
    /\ env_keys = EnvKeys
    /\ clip_bytes = [a \in MainAgents |-> 0]
    /\ pc = "playback"
    /\ run_analysis = FALSE
    /\ rendered_active = None
    /\ exposed_clip = None
    /\ shown = {}
    /\ failed = {}
    /\ called_render = FALSE
    /\ clip_io = "none"
    /\ scheduled = NoRefresh
    /\ fpc = "off"
    /\ current_chunk = NoChunk
    /\ agent_all_content = EmptyMap
    /\ agent_outputs_local = EmptyMap
    /\ chunk_count = 0
    /\ render_fault = NoFault
    /\ render_result = NoResult
    /\ reset_from = "none"
    /\ entered_age = EmptyMap
    /\ waits_done = 0
    /\ render_failed = FALSE
    /\ VoiceUnused
    /\ elapsed_ms = 0

PollFrame == <<analysis_complete, voice_playing, voice_playback_complete,
               agent_audio_files, agents_to_play, audio_durations,
               audio_start_age, agent_messages, agent_outputs, environment,
               run_analysis, rendered_active, failed, called_render,
               streamvars, rendervars, voicevars, history>>

\* The clip's estimated duration has not passed: the caption, st_autorefresh
PollWait ==
    /\ pc = "playback"
    /\ SequencerPolled
    /\ playback_index < Len(agents_to_play)
    /\ ClipOnDisk
    /\ ~AdvanceDueMs(elapsed_ms, DurationFor(audio_durations, current_agent))
    /\ current_playing_agent' = current_agent
    /\ shown' = shown \cup {"speaking", "caption: Next agent in"}
    /\ clip_io' = "ok"
    /\ exposed_clip' = current_agent
    /\ scheduled' = AutoRefresh(RefreshInterval(
                        RemainingMs(elapsed_ms,
                                    DurationFor(audio_durations, current_agent))))
    /\ pc' = "idle"
    /\ UNCHANGED <<PollFrame, playback_index, elapsed_ms>>

\* The clip's estimated duration has passed: the index advances, st.rerun()
PollAdvance ==
    /\ pc = "playback"
    /\ SequencerPolled
    /\ playback_index < Len(agents_to_play)
    /\ ClipOnDisk
    /\ AdvanceDueMs(elapsed_ms, DurationFor(audio_durations, current_agent))
    /\ current_playing_agent' = current_agent
    /\ shown' = shown \cup {"speaking"}
    /\ clip_io' = "ok"
    /\ exposed_clip' = current_agent
    /\ playback_index' = NextIndex(playback_index)
    /\ scheduled' = Rerun
    /\ pc' = "idle"
    /\ UNCHANGED <<PollFrame, elapsed_ms>>

\* The interval given to st_autorefresh is up: main() is called again
PollRefresh ==
    /\ pc = "idle"
    /\ scheduled.kind = "auto"
    /\ elapsed_ms' = elapsed_ms + scheduled.interval
    /\ shown' = {}
    /\ clip_io' = "none"
    /\ exposed_clip' = None
    /\ scheduled' = NoRefresh
    /\ pc' = "playback"
    /\ UNCHANGED <<PollFrame, current_playing_agent, playback_index>>

PollNext == PollWait \/ PollAdvance \/ PollRefresh

PollSpec == PollInit /\ [][PollNext]_vars

----------------------------------------------------------------------------
\* The voice input, the text area and the run decision of main(), one pass at
\* a time (lines 806-968); the rest of the pass is the page model above

\* What the recorder may hand back besides None: no bytes, two recordings
Recordings == {"recording A", "recording B"}
EmptyBytes == "no bytes"

TypedQueries == {DefaultQuery, "typed query"}
Transcripts == {"spoken query"}

\* hashlib.md5(audio_bytes).hexdigest()
AudioHash(bytes) ==
    CASE bytes = "recording A" -> "digest of recording A"
      [] bytes = "recording B" -> "digest of recording B"
      [] OTHER -> "digest of no bytes"

\* (transcribed_text, error) as transcribe_audio returns them
TranscribeResults ==
    {[text |-> t, error |-> None] : t \in Transcripts}
        \cup {[text |-> None, error |-> "Could not understand the audio"]}

IsNewAudio_Always(bytes, last) == TRUE

\* audio_hash != st.session_state.last_audio_processed
IsNewAudio(bytes, last) == AudioHash(bytes) # last

QueryAfter_Clears(text, query) == text

\* if transcribed_text: st.session_state.query_text = transcribed_text
QueryAfter(text, query) == IF text # None THEN text ELSE query

\* if transcribed_text: st.session_state.auto_run_analysis = True
AutoRunAfter(text, flag) == IF text # None THEN TRUE ELSE flag

VoiceInit ==
    /\ analysis_complete = FALSE
    /\ voice_playing = FALSE
    /\ voice_playback_complete = FALSE
    /\ agent_audio_files = << >>
    /\ current_playing_agent = None
    /\ playback_index = 0
    /\ agents_to_play = << >>
    /\ audio_durations = EmptyMap
    /\ audio_start_age = EmptyMap
    /\ agent_messages = << >>
    /\ agent_outputs = EmptyMap
    /\ disk = {}
    /\ env_keys = EnvKeys
    /\ clip_bytes = [a \in MainAgents |-> 0]
    /\ pc = "idle"
    /\ run_analysis = FALSE
    /\ rendered_active = None
    /\ exposed_clip = None
    /\ shown = {}
    /\ failed = {}
    /\ called_render = FALSE
    /\ clip_io = "none"
    /\ scheduled = NoRefresh
    /\ fpc = "off"
    /\ current_chunk = NoChunk
    /\ agent_all_content = EmptyMap
    /\ agent_outputs_local = EmptyMap
    /\ chunk_count = 0
    /\ render_fault = NoFault
    /\ render_result = NoResult
    /\ reset_from = "none"
    /\ entered_age = EmptyMap
    /\ waits_done = 0
    /\ render_failed = FALSE
    /\ VoiceUnused
    /\ elapsed_ms = 0

VoiceFrame == <<session, environment, rendered_active, exposed_clip,
                called_render, clip_io, streamvars, rendervars, pollvars,
                history>>

\* Streamlit calls main() for one event: the recorder hands back something
\* else, the text area is committed with another text, the run button or the
\* Reset button is pressed, or nothing (a refresh, or the rerun asked for)
VoiceBeginPass ==
    /\ pc = "idle"
    /\ \E event \in {"none", "record", "type", "click", "reset"} :
        /\ scheduled.kind = "rerun" => event = "none"
        /\ event = "reset" => "button: Reset" \in shown
        /\ voice_event' = event
        /\ IF event = "record"
           THEN /\ audio_bytes' \in (Recordings \cup {EmptyBytes}) \ {audio_bytes}
                /\ transcribed' = FALSE
           ELSE UNCHANGED <<audio_bytes, transcribed>>
        /\ IF event = "type"
           THEN query_input' \in TypedQueries \ {query_input}
           ELSE UNCHANGED query_input
        /\ run_analysis' = (event = "click")
    /\ pass_query' = query_text
    /\ shown' = {}
    /\ failed' = {}
    /\ scheduled' = NoRefresh
    /\ pc' = "voice"
    /\ UNCHANGED <<VoiceFrame, query_text, last_audio_processed,
                   auto_run_analysis, auto_owed>>

\* audio_bytes is None or empty
VoiceNoAudio ==
    /\ pc = "voice"
    /\ audio_bytes \in {None, EmptyBytes}
    /\ pc' = "query"
    /\ UNCHANGED <<VoiceFrame, run_analysis, shown, failed, scheduled, voicevars>>

\* New audio: transcribe_audio is called and the audio marked as processed; a
\* transcript becomes the query and asks for an automatic run and a rerun, an
\* error is shown as a warning
VoiceTranscribe ==
    /\ pc = "voice"
    /\ audio_bytes \in Recordings
    /\ IsNewAudio(audio_bytes, last_audio_processed)
    /\ \E r \in TranscribeResults :
        /\ query_text' = QueryAfter(r.text, query_text)
        /\ auto_run_analysis' = AutoRunAfter(r.text, auto_run_analysis)
        /\ IF r.text # None
           THEN /\ shown' = shown \cup {"success: Transcribed"}
                /\ scheduled' = Rerun
                /\ auto_owed' = auto_owed + 1
                /\ pc' = "idle"
                /\ UNCHANGED failed
           ELSE /\ shown' = shown \cup {"warning: Could not transcribe audio"}
                /\ failed' = failed \cup {"transcription"}
                /\ pc' = "query"
                /\ UNCHANGED <<scheduled, auto_owed>>
    /\ last_audio_processed' = AudioHash(audio_bytes)
    /\ transcribed' = TRUE
    /\ UNCHANGED <<VoiceFrame, run_analysis, audio_bytes, query_input,
                   voice_event, pass_query>>

\* The audio was processed before: it is shown with the Reset button
VoiceAlreadyProcessed ==
    /\ pc = "voice"
    /\ audio_bytes \in Recordings
    /\ ~IsNewAudio(audio_bytes, last_audio_processed)
    /\ voice_event # "reset"
    /\ shown' = shown \cup {"info: Audio transcribed", "button: Reset"}
    /\ pc' = "query"
    /\ UNCHANGED <<VoiceFrame, run_analysis, failed, scheduled, voicevars>>

\* Reset was pressed: the mark is cleared and the page rerun
VoiceReset ==
    /\ pc = "voice"
    /\ audio_bytes \in Recordings
    /\ ~IsNewAudio(audio_bytes, last_audio_processed)
    /\ voice_event = "reset"
    /\ shown' = shown \cup {"info: Audio transcribed", "button: Reset"}
    /\ last_audio_processed' = None
    /\ transcribed' = FALSE
    /\ scheduled' = Rerun
    /\ pc' = "idle"
    /\ UNCHANGED <<VoiceFrame, run_analysis, failed, query_text,
                   auto_run_analysis, audio_bytes, query_input, voice_event,
                   pass_query, auto_owed>>

\* The text area: it hands back what was committed; when the program has
\* changed query_text, its default, it hands back either its own state or the
\* new default.  if query != query_text: query_text = query
QueryInput ==
    /\ pc = "query"
    /\ \E query \in (IF voice_event = "type" THEN {query_input}
                     ELSE {query_input, query_text}) :
        /\ query_input' = query
        /\ query_text' = query
    /\ pc' = "rundecision"
    /\ UNCHANGED <<VoiceFrame, run_analysis, shown, failed, scheduled,
                   last_audio_processed, auto_run_analysis, audio_bytes,
                   voice_event, pass_query, transcribed, auto_owed>>

\* run_analysis = st.button(...); a pending auto_run_analysis makes it True
\* and is cleared
RunDecision ==
    /\ pc = "rundecision"
    /\ run_analysis' = (run_analysis \/ auto_run_analysis)
    /\ auto_run_analysis' = FALSE
    /\ auto_owed' = IF auto_run_analysis THEN auto_owed - 1 ELSE auto_owed
    /\ pc' = "idle"
    /\ UNCHANGED <<VoiceFrame, shown, failed, scheduled, query_text,
                   last_audio_processed, audio_bytes, query_input, voice_event,
                   pass_query, transcribed>>

VoiceNext ==
    \/ VoiceBeginPass
    \/ VoiceNoAudio
    \/ VoiceTranscribe
    \/ VoiceAlreadyProcessed
    \/ VoiceReset
    \/ QueryInput
    \/ RunDecision

VoiceSpec == VoiceInit /\ [][VoiceNext]_vars

----------------------------------------------------------------------------
\* The run request of main() (lines 970-985) on a session as earlier passes
\* may have left it, with a required key missing from the environment

\* Playback fields as the sequencer leaves them: nothing rendered, playing
\* clip index of the play list (or just past it), or playback complete
PriorSessions ==
    {p \in [files : {SubSeq(BothClips, 1, n) : n \in 0..2},
            index : 0..2,
            current : {None} \cup MainAgents,
            analysis_complete : BOOLEAN,
            voice_playing : BOOLEAN,
            voice_playback_complete : BOOLEAN] :
        /\ p.index <= Len(p.files)
        /\ p.voice_playing => (p.analysis_complete /\ ~p.voice_playback_complete
                               /\ p.files # << >>)
        /\ p.voice_playback_complete => (p.analysis_complete /\ p.files # << >>
                                         /\ p.index = 0 /\ p.current = None)
        /\ p.files # << >> => (p.voice_playing \/ p.voice_playback_complete)
        /\ p.current # None =>
               /\ p.voice_playing
               /\ \E i \in 1..Len(p.files) :
                      /\ p.files[i][1] = p.current
                      /\ i \in {p.index, p.index + 1}}

RunInit ==
    /\ \E p \in PriorSessions :
        /\ analysis_complete = p.analysis_complete
        /\ voice_playing = p.voice_playing
        /\ voice_playback_complete = p.voice_playback_complete
        /\ agent_audio_files = p.files
        /\ current_playing_agent = p.current
        /\ playback_index = p.index
        /\ agents_to_play = DictKeys(p.files)
        /\ audio_durations = [a \in {p.files[i][1] : i \in 1..Len(p.files)} |->
                                 EstimatedDuration(7 * BytesPerSecond)]
        /\ agent_messages = [i \in 1..Len(p.files) |-> <<p.files[i][1], LongText>>]
        /\ agent_outputs = [a \in {p.files[i][1] : i \in 1..Len(p.files)} |-> LongText]
        /\ disk = {p.files[i][2] : i \in 1..Len(p.files)}
    /\ audio_start_age = EmptyMap
    /\ env_keys \in {k \in SUBSET EnvKeys :
                        ~({"GROQ_API_KEY", "BRIGHT_DATA_API_TOKEN"} \subseteq k)}
    /\ clip_bytes = [a \in MainAgents |-> 7 * BytesPerSecond]
    /\ pc = "run"
    /\ run_analysis = TRUE
    /\ rendered_active = None
    /\ exposed_clip = None
    /\ shown = {}
    /\ failed = {}
    /\ called_render = FALSE
    /\ clip_io = "none"
    /\ scheduled = NoRefresh
    /\ fpc = "off"
    /\ current_chunk = NoChunk
    /\ agent_all_content = EmptyMap
    /\ agent_outputs_local = EmptyMap
    /\ chunk_count = 0
    /\ render_fault = NoFault
    /\ render_result = NoResult
    /\ reset_from = "none"
    /\ entered_age = EmptyMap
    /\ waits_done = 0
    /\ render_failed = FALSE
    /\ VoiceUnused
    /\ elapsed_ms = 0

RunNext == RunRequested \/ MissingCredential

RunSpec == RunInit /\ [][RunNext]_vars

----------------------------------------------------------------------------
\* Claims about the playback sequencer, checked under Spec

\* The step is the reset of a new analysis run
NewRunReset == pc = "run" /\ run_analysis

\* C1 as stated: across render passes that start no new analysis run, the
\* playback index never decreases.
C1_IndexNeverDecreases ==
    [][~NewRunReset => playback_index' >= playback_index]_vars

\* C1, amended: the playback index decreases only when it is reset to 0, by
\* the pass that finds it equal to len(agents_to_play) and reports playback
\* complete or by the reset of a new analysis run; while the sequencer is
\* playing, the index equals the number of completed waits of the run and
\* never exceeds len(agents_to_play).
C1_IndexMonotoneUntilReset ==
    /\ [][playback_index' < playback_index =>
            /\ playback_index' = 0
            /\ \/ NewRunReset
               \/ /\ playback_index = Len(agents_to_play)
                  /\ ~voice_playback_complete /\ voice_playback_complete']_vars
    /\ [](SequencerPolled =>
            /\ playback_index = waits_done
            /\ playback_index <= Len(agents_to_play))

\* Two clips have been waited for and the index stands at the length of the list
C1_Witness ==
    /\ SequencerPolled
    /\ Len(agents_to_play) = 2
    /\ waits_done = 2
    /\ playback_index = Len(agents_to_play)

\* C2: the sequencer advances from Playing(i) only when the time since
\* Playing(i) was first entered in the current run is at least the clip's
\* estimated duration.
C2_AdvanceOnlyAfterDuration ==
    [][playback_index' = playback_index + 1 =>
         /\ current_agent \in DOMAIN entered_age
         /\ entered_age[current_agent] * BytesPerSecond
                >= DurationFor(audio_durations, current_agent)]_vars

\* C3: right after the reset of a new analysis run no clip-start timestamp of
\* an earlier run remains in the session state.
C3_ResetClearsStartTimes ==
    pc = "analysis" => DOMAIN audio_start_age = {}

\* C4: right after the reset of a new analysis run, whatever the sequencer
\* state was, there is no active agent, the index is 0, the clip mapping and
\* the play list are empty and the completion flags are false.
C4_ResetClearsPlayback ==
    pc = "analysis" =>
        /\ current_playing_agent = None
        /\ playback_index = 0
        /\ agent_audio_files = << >>
        /\ agents_to_play = << >>
        /\ ~voice_playback_complete
        /\ ~analysis_complete
        /\ ~voice_playing

\* A new run was started while a clip was playing
C4_Witness == pc = "analysis" /\ reset_from = "Playing"

\* C7: at the end of a render pass that exposed the clip of an agent, the
\* circle drawn active in that pass is that agent's; at the end of the pass
\* that reports playback complete no circle was drawn active.
C7_HighlightInLockStep ==
    pc = "idle" =>
        /\ exposed_clip # None => rendered_active = exposed_clip
        /\ "success: Voice output complete" \in shown => rendered_active = None

\* Messages drawn with st.error or st.warning
Alerts == {m \in shown : \E i \in 1..Len(m) : SubSeq(m, 1, i) \in {"error:", "warning:"}}

\* C8: a render pass in which the analysis raised, the audio rendering
\* returned an error, or the clip file could not be read or was missing ends
\* with an error or warning shown, voice_playing false and no active agent.
C8_FailuresDegradeToIdle ==
    (pc = "idle" /\ failed \cap {"analysis", "render", "clip read", "clip missing"} # {}) =>
        /\ Alerts # {}
        /\ ~voice_playing
        /\ current_playing_agent = None

\* C9: once playback is complete, and as long as no new analysis run resets
\* it, no step sets voice_playing or an active agent, calls the rendering
\* step or exposes a clip.
C9_CompleteIsTerminal ==
    [][(voice_playback_complete /\ voice_playback_complete') =>
         /\ ~voice_playing'
         /\ current_playing_agent' = None
         /\ called_render' => called_render
         /\ exposed_clip' # None => exposed_clip' = exposed_clip
         /\ playback_index' = 0]_vars

\* A later render pass reaches the sequencer with playback already complete
C9_Witness == pc = "playback" /\ voice_playback_complete /\ ~run_analysis

\* The play list of the example: stock_finder_agent estimated 5 s,
\* market_data_agent estimated 7 s
ExampleClips ==
    /\ agents_to_play = <<"stock_finder_agent", "market_data_agent">>
    /\ DOMAIN audio_durations = {"stock_finder_agent", "market_data_agent"}
    /\ audio_durations["stock_finder_agent"] = 5 * BytesPerSecond
    /\ audio_durations["market_data_agent"] = 7 * BytesPerSecond

\* C10: a poll that finds the index equal to the length of the play list
\* clears the active agent, resets the index to 0, clears voice_playing and
\* records playback as finished, and the index never rests at the length of
\* the list between passes; with clips of 5 s and 7 s, a poll that plays the
\* first clip 6 s after its start moves to index 1, and a poll that plays the
\* second clip 7 s after its start moves on to the completing pass.
C10_PollAtEndCompletes ==
    /\ [][(pc = "playback" /\ SequencerPolled
             /\ playback_index = Len(agents_to_play)) =>
            /\ current_playing_agent' = None
            /\ playback_index' = 0
            /\ ~voice_playing'
            /\ voice_playback_complete']_vars
    /\ [][(pc = "playback" /\ SequencerPolled /\ ExampleClips /\ clip_io' = "ok"
             /\ playback_index = 0
             /\ "stock_finder_agent" \in DOMAIN audio_start_age
             /\ audio_start_age["stock_finder_agent"] = 6) =>
            playback_index' = 1]_vars
    /\ [][(pc = "playback" /\ SequencerPolled /\ ExampleClips /\ clip_io' = "ok"
             /\ playback_index = 1
             /\ "market_data_agent" \in DOMAIN audio_start_age
             /\ audio_start_age["market_data_agent"] = 7) =>
            (playback_index' = 2 /\ scheduled'.kind = "rerun")]_vars
    /\ []((pc = "idle" /\ scheduled.kind # "rerun" /\ SequencerPolled) =>
            playback_index < Len(agents_to_play))

\* The example has run to Complete: both clips were waited for
C10_Witness ==
    /\ pc = "idle"
    /\ ExampleClips
    /\ waits_done = 2
    /\ voice_playback_complete
    /\ ~voice_playing
    /\ current_playing_agent = None
    /\ playback_index = 0

\* C11: once generate_individual_agent_audio has returned an error in an
\* analysis run, no later step of that run calls the rendering step again.
C11_NoRetryAfterRenderError ==
    [][(render_failed /\ ~NewRunReset) => (called_render' => called_render)]_vars

----------------------------------------------------------------------------
\* Claims about the message filter

\* Trimmed length of a content that is text; content that is not text has none
TrimmedTextLength(c) == IF IsStr(c) THEN c.body ELSE 0

FiveKnownAgents == {"supervisor", "stock_finder_agent", "market_data_agent",
                    "news_analyst_agent", "price_recommender_agent"}

KeptInTranscript(msg) ==
    \E i \in 1..Len(agent_messages) : agent_messages[i] = <<msg.name, msg.content>>

\* C5: after the final filter, a message of the final history is in
\* agent_messages if and only if its trimmed text is longer than 100
\* characters and its name is one of the five known agents.
C5_FinalKeepsKnownLongOnly ==
    fpc = "done" =>
        \A i \in 1..Len(FinalHistory(current_chunk)) :
            LET msg == FinalHistory(current_chunk)[i] IN
            KeptInTranscript(msg) <=>
                (TrimmedTextLength(msg.content) > 100 /\ msg.name \in FiveKnownAgents)

\* The messages of an update whose trimmed text is longer than 50 characters
LongerThan50(messages) ==
    SelectSeq([i \in 1..Len(messages) |-> messages[i].content],
              LAMBDA c : TrimmedTextLength(c) > 50)

Collected(all, node) == IF node \in DOMAIN all THEN all[node] ELSE << >>

\* C6: an update of a known agent node appends to that agent's collected
\* content exactly the contents of its messages whose trimmed text is longer
\* than 50 characters, in order.
C6_StreamKeepsLongerThan50 ==
    [][(fpc = "streaming" /\ fpc' = "streaming" /\ current_chunk'.node \in agent_icons) =>
         Collected(agent_all_content', current_chunk'.node)
            = Collected(agent_all_content, current_chunk'.node)
                \o LongerThan50(current_chunk'.messages)]_vars

\* An update of a known agent carried a message of 51 characters of which 49
\* remain after trimming, which was dropped, and one of 51, which was kept
C6_Witness ==
    /\ fpc = "streaming"
    /\ current_chunk = Chunk("stock_finder_agent",
           <<Msg("stock_finder_agent", Text(2, MIN_STREAMING_CONTENT_LENGTH - 1)),
             Msg("stock_finder_agent", Text(0, MIN_STREAMING_CONTENT_LENGTH + 1))>>)
    /\ Collected(agent_all_content, "stock_finder_agent")
          = <<Text(0, MIN_STREAMING_CONTENT_LENGTH + 1)>>

\* Position of an agent in the pipeline the supervisor is built with, 0 for
\* a name that is not in it
AgentPipeline == <<"stock_finder_agent", "market_data_agent",
                   "news_analyst_agent", "price_recommender_agent">>

PipelinePosition(name) ==
    IF \E k \in 1..Len(AgentPipeline) : AgentPipeline[k] = name
    THEN CHOOSE k \in 1..Len(AgentPipeline) : AgentPipeline[k] = name
    ELSE 0

\* C12: after the final filter, the entries of agent_messages that belong to
\* pipeline agents stand in pipeline order, whatever the order of the
\* messages in the history.
C12_TranscriptInPipelineOrder ==
    fpc = "done" =>
        \A i, j \in 1..Len(agent_messages) :
            (/\ i < j
             /\ PipelinePosition(agent_messages[i][1]) > 0
             /\ PipelinePosition(agent_messages[j][1]) > 0)
            => PipelinePosition(agent_messages[i][1])
                   <= PipelinePosition(agent_messages[j][1])

\* C13: after the final filter, agent_messages holds at most one entry for
\* each agent name.
C13_OneEntryPerAgent ==
    fpc = "done" =>
        \A i, j \in 1..Len(agent_messages) :
            i # j => agent_messages[i][1] # agent_messages[j][1]

----------------------------------------------------------------------------
\* Claims about the audio rendering, checked under RenderSpec

\* C14: without the voice-provider credential the call returns the
\* configuration error and no mapping, makes no provider request and writes
\* no file.
C14_MissingCredentialFailsFast ==
    [][(pc = "render" /\ pc' = "rendered" /\ "MURF_API_KEY" \notin env_keys) =>
         /\ ~render_result'.ok
         /\ render_result'.files = << >>
         /\ render_result'.error = "Voice generation requires MURF_API_KEY"
         /\ render_result'.requests = 0
         /\ disk' = disk]_vars

\* The call was made without the credential on a batch of two full answers
C14_Witness ==
    /\ pc = "rendered"
    /\ "MURF_API_KEY" \notin env_keys
    /\ Len(agent_messages) = 2
    /\ \A i \in 1..2 : agent_messages[i][2] = LongText
    /\ ~render_result.ok

\* Agents of the batch whose text is not empty and not only whitespace
AgentsWithText(batch) ==
    {batch[i][1] : i \in {k \in 1..Len(batch) : batch[k][2].body > 0}}

KeysOf(files) == {files[i][1] : i \in 1..Len(files)}

\* C15: when the call succeeds, the keys of the mapping are exactly the
\* agents of the batch that have text which is not empty and not only
\* whitespace, and no error is reported.
C15_SuccessMapsAgentsWithText ==
    (pc = "rendered" /\ render_result.ok) =>
        /\ KeysOf(render_result.files) = AgentsWithText(agent_messages)
        /\ render_result.error = None

\* A batch of a whitespace-only text and a full answer gave a mapping with
\* the second agent only
C15_Witness ==
    /\ pc = "rendered"
    /\ render_result.ok
    /\ agent_messages = << <<"stock_finder_agent", Text(1, 0)>>,
                           <<"market_data_agent", LongText>> >>
    /\ KeysOf(render_result.files) = {"market_data_agent"}

\* Positions of the batch up to k whose text is not skipped
Requested(batch, k) == {i \in 1..k : batch[i][2].body > 0}

\* C16: when the provider request or the file write of the k-th message
\* raises, the call returns an error and no mapping, has made no request
\* after the k-th message's, and the files written for the earlier messages
\* are still in the working directory.
C16_FailureAbortsBatch ==
    [][(/\ pc = "render" /\ pc' = "rendered"
        /\ "MURF_API_KEY" \in env_keys
        /\ render_fault.at \in 1..Len(agent_messages)
        /\ agent_messages[render_fault.at][2].body > 0) =>
         LET k == render_fault.at
             earlier == {AudioPath(".", agent_messages[i][1]) :
                            i \in Requested(agent_messages, k - 1)}
         IN /\ ~render_result'.ok
            /\ render_result'.files = << >>
            /\ render_result'.error # None
            /\ render_result'.requests = Cardinality(Requested(agent_messages, k))
            /\ disk \cup earlier \subseteq disk'
            /\ disk' \subseteq disk \cup earlier
                                 \cup {AudioPath(".", agent_messages[k][1])}]_vars

\* The request for the second clip of a batch failed: two requests were made,
\* the first clip is on disk and nothing was returned
C16_Witness ==
    /\ pc = "rendered"
    /\ render_fault = [at |-> 2, kind |-> "provider"]
    /\ agent_messages = << <<"stock_finder_agent", LongText>>,
                           <<"market_data_agent", LongText>> >>
    /\ ~render_result.ok
    /\ render_result.requests = 2
    /\ disk = {AudioPath(".", "stock_finder_agent")}

----------------------------------------------------------------------------
\* More claims about the message filter

NamesIn(transcript) == {transcript[i][1] : i \in 1..Len(transcript)}

\* The text of the last entry of the transcript for the agent
LastKeptText(transcript, a) ==
    LET last == CHOOSE i \in 1..Len(transcript) :
                    /\ transcript[i][1] = a
                    /\ \A j \in (i + 1)..Len(transcript) : transcript[j][1] # a
    IN transcript[last][2]

\* C17: the final processing leaves in agent_outputs, for every agent with an
\* entry in agent_messages, the text of its last entry, whatever was captured
\* for it while streaming, and for every other agent the value captured
\* while streaming.
C17_FinalOverridesStreaming ==
    [][(fpc = "streaming" /\ fpc' = "done") =>
         /\ DOMAIN agent_outputs' = NamesIn(agent_messages') \cup DOMAIN agent_outputs_local
         /\ \A a \in NamesIn(agent_messages') :
                agent_outputs'[a] = LastKeptText(agent_messages', a)
         /\ \A a \in DOMAIN agent_outputs_local \ NamesIn(agent_messages') :
                agent_outputs'[a] = agent_outputs_local[a]]_vars

\* stock_finder_agent had a streamed value of 51 characters and a kept final
\* message of 101, which replaced it; the supervisor node's streamed value stayed
C17_Witness ==
    /\ fpc = "done"
    /\ Collected(agent_all_content, "stock_finder_agent")
          = <<Text(0, MIN_STREAMING_CONTENT_LENGTH + 1)>>
    /\ agent_messages = << <<"stock_finder_agent", LongText>> >>
    /\ agent_outputs["stock_finder_agent"] = LongText
    /\ "supervisor" \in DOMAIN agent_outputs

----------------------------------------------------------------------------
\* More claims about the page, checked under Spec

RequiredKeyMissing ==
    "GROQ_API_KEY" \notin env_keys \/ "BRIGHT_DATA_API_TOKEN" \notin env_keys

\* C18: when an analysis is requested and GROQ_API_KEY or
\* BRIGHT_DATA_API_TOKEN is missing, the pass shows an error naming the key
\* and ends there: run_stock_analysis neither completes nor fails, the
\* rendering step is not called, and no analysis result is ever stored.
C18_MissingKeyBlocksAnalysis ==
    /\ [][(pc = "analysis" /\ RequiredKeyMissing) =>
            /\ pc' = "idle"
            /\ shown' \cap {"error: GROQ_API_KEY is required",
                            "error: BRIGHT_DATA_API_TOKEN is required"} # {}
            /\ ~analysis_complete'
            /\ "analysis" \notin failed'
            /\ ~called_render'
            /\ agent_messages' = agent_messages
            /\ agent_outputs' = agent_outputs]_vars
    /\ [](RequiredKeyMissing => (~analysis_complete /\ "analysis" \notin failed))

\* A run was requested with GROQ_API_KEY set and BRIGHT_DATA_API_TOKEN missing
C18_Witness ==
    /\ pc = "idle"
    /\ run_analysis
    /\ "GROQ_API_KEY" \in env_keys
    /\ "error: BRIGHT_DATA_API_TOKEN is required" \in shown

----------------------------------------------------------------------------
\* Claims about the timing arithmetic

\* The durations have been stored and the agent's clip was on disk
Estimated(a) == pc = "playback" /\ a \in DOMAIN audio_durations

\* C19: the duration stored for a clip is at least 5 seconds, does not
\* decrease as the clip's byte size grows, is 5 s for 0 and for 240000 bytes
\* and 10 s for 480000 bytes; and the duration the sequencer looks up for any
\* agent of the play list is at least 5 seconds.  Durations are held in
\* 1/48000 s.
C19_DurationEstimate ==
    /\ \A a \in MainAgents :
         Estimated(a) =>
           /\ audio_durations[a] >= 5 * 48000
           /\ clip_bytes[a] = 0 => audio_durations[a] = 5 * 48000
           /\ clip_bytes[a] = 240000 => audio_durations[a] = 5 * 48000
           /\ clip_bytes[a] = 480000 => audio_durations[a] = 10 * 48000
           /\ clip_bytes[a] >= 240000 => audio_durations[a] = clip_bytes[a]
    /\ \A a, b \in MainAgents :
         (Estimated(a) /\ Estimated(b) /\ clip_bytes[a] <= clip_bytes[b])
            => audio_durations[a] <= audio_durations[b]
    /\ pc = "playback" =>
         \A i \in 1..Len(agents_to_play) :
            DurationFor(audio_durations, agents_to_play[i]) >= 5 * 48000

\* Durations were stored for an empty clip and for a clip of 480000 bytes
C19_Witness ==
    /\ Estimated("stock_finder_agent") /\ Estimated("market_data_agent")
    /\ clip_bytes["stock_finder_agent"] = 0
    /\ clip_bytes["market_data_agent"] = 480000
    /\ audio_durations["market_data_agent"] = 480000

\* Whole seconds left of the clip polled in state pc = "playback": the
\* stored duration (10 s when none is stored) less the time since the start
\* key was set (0 when it is set by this poll), rounded down
SecondsLeft ==
    LET a == agents_to_play[playback_index + 1]
        duration == IF a \in DOMAIN audio_durations THEN audio_durations[a]
                    ELSE 10 * 48000
        elapsed == IF a \in DOMAIN audio_start_age THEN audio_start_age[a] ELSE 0
    IN (duration - elapsed * 48000) \div 48000

Clamp(x, lo, hi) == IF x < lo THEN lo ELSE IF x > hi THEN hi ELSE x

\* C20: a poll that schedules a timed refresh schedules it after
\* clamp(remaining * 500, 1000, 3000) ms, remaining being the whole seconds
\* left of the clip; remaining is never negative, the interval lies within
\* [1000, 3000] and is no shorter than the interval of any smaller remaining.
C20_RefreshIntervalClamped ==
    [][(pc = "playback" /\ scheduled'.kind = "auto") =>
         /\ SecondsLeft >= 0
         /\ scheduled'.interval = Clamp(SecondsLeft * 500, 1000, 3000)
         /\ scheduled'.interval >= 1000
         /\ scheduled'.interval <= 3000
         /\ \A r \in 0..SecondsLeft :
                Clamp(r * 500, 1000, 3000) <= scheduled'.interval]_vars

\* A clip of 5 s and one byte was polled 5 s after its start: no whole second
\* is left and the refresh comes after 1000 ms
C20_Witness ==
    /\ pc = "idle"
    /\ scheduled = AutoRefresh(1000)
    /\ DOMAIN audio_durations = {"stock_finder_agent"}
    /\ audio_durations["stock_finder_agent"] = 5 * 48000 + 1
    /\ DOMAIN audio_start_age = {"stock_finder_agent"}
    /\ audio_start_age["stock_finder_agent"] = 5

----------------------------------------------------------------------------
\* Claims settled last

\* An entry of the history with no name or no content to extract
Malformed(msg) == msg.name = None \/ msg.content.kind \in {"absent", "none"}

\* C21: after the final filter no entry of agent_messages comes from a
\* history entry that has no name or no content: no entry is without a name,
\* and there are no more entries than well-formed messages in the history.
C21_MalformedDropped ==
    fpc = "done" =>
        LET hist == FinalHistory(current_chunk) IN
        /\ \A i \in 1..Len(agent_messages) : agent_messages[i][1] # None
        /\ Len(agent_messages)
              <= Cardinality({i \in 1..Len(hist) : ~Malformed(hist[i])})

\* C22 as stated: at the end of a render pass, an agent marked active means
\* that voice_playing is true and that the agent is the one at the playback
\* index of the play list.
C22_ActiveAgentIsAtIndex ==
    (pc = "idle" /\ current_playing_agent # None) =>
        /\ voice_playing
        /\ playback_index < Len(agents_to_play)
        /\ current_playing_agent = agents_to_play[playback_index + 1]

\* C22, amended: at the end of a render pass, an agent marked active means
\* that voice_playing is true and, when the pass did not advance, that the
\* agent is the one at the playback index; a pass that advanced and asked for
\* a rerun ends with the agent just played still active, one position below
\* the index.
C22_ActiveAgentIsAtIndexUnlessAdvancing ==
    (pc = "idle" /\ current_playing_agent # None) =>
        /\ voice_playing
        /\ agent_audio_files # << >>
        /\ IF scheduled.kind = "rerun"
           THEN /\ playback_index \in 1..Len(agents_to_play)
                /\ current_playing_agent = agents_to_play[playback_index]
           ELSE /\ playback_index < Len(agents_to_play)
                /\ current_playing_agent = agents_to_play[playback_index + 1]

\* The pass advanced past the last clip: the last agent is still active and
\* the index equals the length of the play list
C22_Witness ==
    /\ pc = "idle"
    /\ scheduled.kind = "rerun"
    /\ Len(agents_to_play) = 2
    /\ playback_index = 2
    /\ current_playing_agent = agents_to_play[2]

\* C23: a pass in which speech-to-text returned no transcript shows a
\* warning, keeps query_text as it was when the pass began, sets no automatic
\* run and ends without an analysis being requested.
C23_FailedTranscriptionKeepsQuery ==
    "transcription" \in failed =>
        /\ "warning: Could not transcribe audio" \in shown
        /\ query_text = pass_query
        /\ ~auto_run_analysis
        /\ ~run_analysis
        /\ scheduled.kind # "rerun"

\* A second recording was not understood after a first one was: the pass has
\* ended and the query is still the first transcript
C23_Witness ==
    /\ pc = "idle"
    /\ "transcription" \in failed
    /\ audio_bytes = "recording B"
    /\ query_text = "spoken query"

\* transcribe_audio was called in this step: its outcome is on the page
TranscribeCalled ==
    /\ pc = "voice"
    /\ \/ "success: Transcribed" \in shown'
       \/ "warning: Could not transcribe audio" \in shown'

\* C26: transcribe_audio is called only for a recording that has not been
\* transcribed since the recorder last changed or Reset was pressed, so not
\* again while the recorder returns the same bytes; and a transcript owes
\* exactly one automatic run, which the rerun it asks for takes: never two are
\* owed, the automatic run is taken only when one is owed, and none is owed
\* once a pass has ended without asking for a rerun.
C26_TranscribedOncePerRecording ==
    [][/\ TranscribeCalled => ~transcribed
       /\ auto_owed' \in {0, 1}
       /\ auto_owed' = (IF auto_run_analysis' THEN 1 ELSE 0)
       /\ (pc = "rundecision" /\ auto_run_analysis) =>
              (auto_owed = 1 /\ run_analysis' /\ voice_event = "none")
       /\ (pc' = "idle" /\ scheduled'.kind # "rerun") => auto_owed' = 0]_vars

\* A pass after the automatic run: the recorder still returns the recording
\* that was transcribed, it is shown as processed and nothing runs
C26_Witness ==
    /\ pc = "idle"
    /\ audio_bytes = "recording A"
    /\ last_audio_processed = AudioHash("recording A")
    /\ transcribed
    /\ query_text = "spoken query"
    /\ "info: Audio transcribed" \in shown
    /\ ~run_analysis
    /\ auto_owed = 0

\* C24: a render pass that ends with the sequencer still playing a clip has
\* asked for a further pass, by st.rerun() or by st_autorefresh, so that
\* playback goes on to Complete without the user.
C24_PlayingPassSchedulesRefresh ==
    (pc = "idle" /\ SeqState = "Playing") => scheduled.kind # "none"

\* C25: in every state the play list holds exactly the keys of the
\* rendered-clip mapping, in the mapping's order and each once.
C25_PlayListIsMappingKeys ==
    /\ Len(agents_to_play) = Len(agent_audio_files)
    /\ \A i \in 1..Len(agents_to_play) :
           agents_to_play[i] = agent_audio_files[i][1]
    /\ \A i, j \in 1..Len(agents_to_play) :
           i # j => agents_to_play[i] # agents_to_play[j]

\* Two clips were rendered and the second is being played
C25_Witness ==
    /\ Len(agent_audio_files) = 2
    /\ SeqState = "Playing"
    /\ playback_index = 1
    /\ pc = "idle"

\* C27: the index always lies between 0 and the length of the play list, and
\* a step changes it only by adding one, which is the last step of its render
\* pass, or by setting it to 0.
C27_IndexInRangeAndStepsByOne ==
    [][/\ playback_index' \in 0..Len(agents_to_play')
       /\ \/ playback_index' = playback_index
          \/ playback_index' = 0
          \/ /\ playback_index' = playback_index + 1
             /\ pc = "playback"
             /\ pc' = "idle"]_vars

\* The last of two clips has been played: the index equals the length of the
\* play list and the pass that will complete playback is due
C27_Witness ==
    /\ Len(agents_to_play) = 2
    /\ playback_index = 2
    /\ voice_playing
    /\ scheduled.kind = "rerun"
    /\ pc = "idle"

\* Every entry of agent_messages is longer than the final threshold once
\* trimmed, as the final filter requires
PassedFinalFilter ==
    \A i \in 1..Len(agent_messages) :
        StripLen(agent_messages[i][2]) > MIN_FINAL_CONTENT_LENGTH

\* C28: when the messages passed the final filter, a render pass that ends
\* with the analysis complete has either left voice_playing false with an
\* error, a warning or the completion message on the page, or left playback
\* on with a non-empty clip mapping and play list.
C28_AutoStartNeverStuck ==
    (pc = "idle" /\ analysis_complete /\ PassedFinalFilter) =>
        \/ /\ ~voice_playing
           /\ Alerts # {} \/ "success: Voice output complete" \in shown
        \/ /\ voice_playing
           /\ agent_audio_files # << >>
           /\ agents_to_play # << >>

\* Rendering the clips of two messages failed: the error is shown and
\* playback is off
C28_Witness ==
    /\ pc = "idle"
    /\ analysis_complete
    /\ Len(agent_messages) = 2
    /\ "render" \in failed
    /\ ~voice_playing
    /\ agent_audio_files = << >>

\* C30: an analysis request rejected for a missing credential leaves the
\* playback fields reset, whatever the session held before: playback and
\* analysis_complete off, no active agent, index 0, empty clip mapping and
\* play list.
C30_RejectedRequestLeavesReset ==
    "credential" \in failed =>
        /\ ~analysis_complete
        /\ ~voice_playing
        /\ ~voice_playback_complete
        /\ current_playing_agent = None
        /\ playback_index = 0
        /\ agent_audio_files = << >>
        /\ agents_to_play = << >>

\* The request was rejected for BRIGHT_DATA_API_TOKEN while the session held
\* the two clips of an earlier run, whose durations and files remain
C30_Witness ==
    /\ pc = "idle"
    /\ "error: BRIGHT_DATA_API_TOKEN is required" \in shown
    /\ "credential" \in failed
    /\ DOMAIN audio_durations = MainAgents
    /\ Cardinality(disk) = 2

\* Milliseconds, times 48, from the poll to the end of the clip's estimated
\* duration; negative once it has passed
TimeLeft == DurationFor(audio_durations, "stock_finder_agent") - elapsed_ms * BytesPerMs

\* C29: when every poll after the first happens exactly when the scheduled
\* interval is up, the poll that finds the clip's estimated duration elapsed
\* happens at most 1000 ms after it elapsed, and an interval longer than the
\* time truly left is scheduled only when less than 2 seconds are left.
C29_EndDetectedWithinOneSecond ==
    /\ (pc = "idle" /\ scheduled.kind = "rerun") => - TimeLeft <= 1000 * BytesPerMs
    /\ (pc = "idle" /\ scheduled.kind = "auto") =>
           (scheduled.interval * BytesPerMs > TimeLeft =>
                TimeLeft < 2000 * BytesPerMs)

\* The end of the clip was found 999 ms after its estimated duration elapsed
C29_Witness ==
    /\ pc = "idle"
    /\ scheduled.kind = "rerun"
    /\ playback_index = 1
    /\ - TimeLeft = 999 * BytesPerMs

====
